---- MODULE Spec2Model ----
(***************************************************************************)
(* A model of two parts of the Nuitka compiler:                            *)
(*                                                                         *)
(*   nuitka/codegen/Contexts.py     the code generation contexts: the       *)
(*       global context with its constant table, the module context with   *)
(*       its code registries, and the child contexts (function, class,     *)
(*       contractions, generator expression, inlined exec) that forward to *)
(*       their parent;                                                     *)
(*   nuitka/nodes/BuiltinTypeNodes.py   computeExpression of the built-in  *)
(*       type constructor nodes.                                           *)
(*                                                                         *)
(* The nodes are modelled as of Python 3 (the "else" branch of the         *)
(* python_version test), where str and bytes share the unicode base.       *)
(***************************************************************************)
EXTENDS FiniteSets, Integers, Sequences, TLC

VARIABLES
    ctxs,               \* the PythonContextBase objects, by identity 1..Len(ctxs)
    constants,          \* PythonGlobalContext.constants: key -> name
    eval_orders_used,   \* PythonGlobalContext.eval_orders_used
    function_codes,     \* PythonModuleContext.function_codes
    contraction_codes,  \* PythonModuleContext.contraction_codes
    class_codes,        \* PythonModuleContext.class_codes
    interned,           \* log: the (constant, handle name) of every table lookup
    allocs,             \* log: how many allocate*Number calls were made
    ret,                \* the last call on a context and what it returned
    node,               \* the node computeExpression was last called on
    trace,              \* the calls that computeExpression made, in order
    result              \* the triple that computeExpression returned

vars == << ctxs, constants, eval_orders_used, function_codes, contraction_codes,
           class_codes, interned, allocs, ret, node, trace, result >>

ctxVars == << ctxs, constants, eval_orders_used, function_codes,
              contraction_codes, class_codes, interned, allocs, ret >>

nodeVars == << node, trace, result >>

(***************************************************************************)
(* Bounds of the model.                                                    *)
(***************************************************************************)
\* child contexts created under the module, per specification
MaxEvalContexts == 2
MaxTreeContexts == 2
MaxPoolContexts == 1
MaxCounterContexts == 1
MaxRegistryContexts == 1
\* allocate*Number calls in one run
MaxAllocs == 2
\* how far around the fold limit the range lengths are drawn
MaxDelta == 1
\* the largest value handed to addEvalOrderUse
MaxEvalOrder == 6

(***************************************************************************)
(* Object references.  Contexts derived from PythonContextBase are the     *)
(* positive numbers; the one PythonGlobalContext and None are told apart   *)
(* from them.                                                              *)
(***************************************************************************)
NoneRef == 0
GlobalRef == -1
ModuleRef == 1

Range(s) == { s[i] : i \in DOMAIN s }

\* ---------------------------------------------------------------------------
\* Identifiers (nuitka/codegen/Identifiers.py is not part of the sources: the
\* constructors keep exactly the arguments they are called with).
\* ---------------------------------------------------------------------------
Identifier(code, ref_count) ==
    [ cls |-> "Identifier", code |-> code, ref_count |-> ref_count ]

ConstantIdentifier(name, constant) ==
    [ cls |-> "ConstantIdentifier", code |-> name, constant |-> constant ]

TempObjectIdentifier(var_name, from_context) ==
    [ cls |-> "TempObjectIdentifier", var_name |-> var_name,
      from_context |-> from_context ]

LocalVariableIdentifier(var_name, from_context) ==
    [ cls |-> "LocalVariableIdentifier", var_name |-> var_name,
      from_context |-> from_context ]

ClosureVariableIdentifier(var_name, from_context) ==
    [ cls |-> "ClosureVariableIdentifier", var_name |-> var_name,
      from_context |-> from_context ]

\* a method that the class of the object does not define
AttributeError == [ cls |-> "AttributeError" ]

\* Python's True and False as passed for from_context; strings so that every
\* from_context has one type
PyFalse == "False"
PyTrue == "True"
PyBool(b) == IF b THEN PyTrue ELSE PyFalse

\* the truth of a from_context argument: False and "" are false
ViaContext(h) == h.from_context \notin { PyFalse, "" }

\* ---------------------------------------------------------------------------
\* Constants handed to getConstantHandle.  A constant is its Python type, its
\* value as HashableConstant compares it, and its printable form: two equal
\* dictionaries built in a different order print differently.
\* ---------------------------------------------------------------------------
Const(type, value, form) == [ type |-> type, value |-> value, form |-> form ]

Str(s) == Const("str", s, s)

PyNone == Const("NoneType", "None", "None")
PyTrueConst == Const("bool", "True", "True")
PyFalseConst == Const("bool", "False", "False")
PyEllipsis == Const("ellipsis", "Ellipsis", "Ellipsis")

\* the constants PythonGlobalContext.__init__ registers, in its order
BasicConstants ==
    << Const("tuple", "()", "()"), Const("dict", "{}", "{}"), Str(""),
       PyTrueConst, PyFalseConst, Const("int", "0", "0"),
       Const("bytes", "", "b''"),
       Str("__module__"), Str("__class__"), Str("__dict__"), Str("__doc__"),
       Str("__file__"), Str("__enter__"), Str("__exit__"), Str("__builtins__"),
       Str("__cached__"), Str("inspect"), Str("compile"), Str("range"),
       Str("open"), Str("print"), Str("__import__"), Str("end"), Str("file"),
       Str("read"), Str("strip") >>

\* the constants the model hands to getConstantHandle after construction
DictAB == Const("dict", "{a:1,b:2}", "{'a': 1, 'b': 2}")
DictBA == Const("dict", "{a:1,b:2}", "{'b': 2, 'a': 1}")

ConstantInputs ==
    { PyNone, PyTrueConst, PyFalseConst, PyEllipsis,
      Const("int", "1", "1"), Const("float", "1", "1.0"),
      DictAB, DictBA, Str(""), Str("a") }

\* the local variable names of the functions contexts are made for
FunctionLocalNames == { << >>, << "a" >> }

VarNames == { "x", "y" }

\* HashableConstant( constant ): the value, whatever its printable form
HashableConstant(constant) == constant.value

\* namifyConstant( constant ): a name made from the type and the printable form
namifyConstant(constant) == constant.type \o "_" \o constant.form

\* key = ( type( constant ), HashableConstant( constant ) )
ConstantKey(constant) == << constant.type, HashableConstant(constant) >>

\* whether getConstantHandle passes the constant to the table
IsTableConstant(constant) ==
    constant \notin { PyNone, PyTrueConst, PyFalseConst, PyEllipsis }

\* a mutant of TableAfter: the name is written on every call
TableAfterOverwrite(table, constant) ==
    IF IsTableConstant(constant)
    THEN [ k \in DOMAIN table \cup { ConstantKey(constant) } |->
             IF k = ConstantKey(constant)
             THEN "_python_" \o namifyConstant(constant)
             ELSE table[k] ]
    ELSE table

\* self.constants after getConstantHandle( constant )
TableAfter(table, constant) ==
    IF IsTableConstant(constant) /\ ConstantKey(constant) \notin DOMAIN table
    THEN [ k \in DOMAIN table \cup { ConstantKey(constant) } |->
             IF k = ConstantKey(constant)
             THEN "_python_" \o namifyConstant(constant)
             ELSE table[k] ]
    ELSE table

\* what getConstantHandle( constant ) returns, table being self.constants
\* after the call
HandleOf(table, constant) ==
    IF constant = PyNone THEN Identifier("Py_None", 0)
    ELSE IF constant = PyTrueConst THEN Identifier("Py_True", 0)
    ELSE IF constant = PyFalseConst THEN Identifier("Py_False", 0)
    ELSE IF constant = PyEllipsis THEN Identifier("Py_Ellipsis", 0)
    ELSE ConstantIdentifier(table[ConstantKey(constant)], constant)

\* the table after getConstantHandle on each constant of a sequence in turn
RECURSIVE TableAfterAll(_, _)
TableAfterAll(table, cs) ==
    IF cs = << >> THEN table
    ELSE TableAfterAll(TableAfter(table, Head(cs)), Tail(cs))

\* the log of table lookups after getConstantHandle on each constant in turn
RECURSIVE InternedAfterAll(_, _, _)
InternedAfterAll(log, table, cs) ==
    IF cs = << >> THEN log
    ELSE LET t == TableAfter(table, Head(cs))
         IN  InternedAfterAll(
                 IF IsTableConstant(Head(cs))
                 THEN log \cup { [ constant |-> Head(cs),
                                   code |-> HandleOf(t, Head(cs)).code ] }
                 ELSE log,
                 t, Tail(cs))

EmptyTable == [ k \in {} |-> "" ]

SeqMap(Op(_), s) == [ i \in DOMAIN s |-> Op(s[i]) ]

\* ---------------------------------------------------------------------------
\* The contexts.
\* ---------------------------------------------------------------------------
ContractionClasses ==
    { "PythonListContractionContext", "PythonGeneratorExpressionContext",
      "PythonSetContractionContext", "PythonDictContractionContext" }

\* PythonContextBase.__init__
PythonContextBase(cls) ==
    [ cls |-> cls, while_loop_count |-> 0, for_loop_count |-> 0,
      try_count |-> 0, with_count |-> 0 ]

\* a mutant of PythonChildContextBase: the new context is its own parent
ChildContextSelfParent(cls, parent, self) ==
    [ cls |-> cls, while_loop_count |-> 0, for_loop_count |-> 0,
      try_count |-> 0, with_count |-> 0, parent |-> self ]

\* PythonChildContextBase.__init__; self is the identity of the new object
PythonChildContextBase(cls, parent, self) ==
    [ cls |-> cls, while_loop_count |-> 0, for_loop_count |-> 0,
      try_count |-> 0, with_count |-> 0, parent |-> parent ]

\* PythonModuleContext.__init__
PythonModuleContext ==
    [ cls |-> "PythonModuleContext", while_loop_count |-> 0,
      for_loop_count |-> 0, try_count |-> 0, with_count |-> 0,
      global_context |-> GlobalRef ]

Contexts == 1 .. Len(ctxs)

IsModule(c) == ctxs[c].cls = "PythonModuleContext"
IsFunction(c) == ctxs[c].cls = "PythonFunctionContext"
IsGenerator(c) == ctxs[c].function.is_generator

\* getParent
getParent(c) == IF IsModule(c) THEN NoneRef ELSE ctxs[c].parent

\* the module context that a call forwarded along self.parent ends in
RECURSIVE ForwardedTo(_)
ForwardedTo(c) == IF IsModule(c) THEN c ELSE ForwardedTo(ctxs[c].parent)

Init ==
    /\ ctxs = << PythonModuleContext >>
    /\ constants = TableAfterAll(EmptyTable, BasicConstants)
    /\ eval_orders_used = 2 .. 5
    /\ function_codes = EmptyTable
    /\ contraction_codes = EmptyTable
    /\ class_codes = EmptyTable
    /\ interned = InternedAfterAll({}, EmptyTable, BasicConstants)
    /\ allocs = 0
    /\ ret = [ op |-> "none" ]
    /\ node = [ kind |-> "none" ]
    /\ trace = << >>
    /\ result = [ node |-> "none" ]

\* PythonFunctionContext( parent, function ): the constructor makes the local
\* names of the function constants
NewFunctionContext(limit) ==
    /\ Len(ctxs) < 1 + limit
    /\ \E parent \in Contexts, is_generator \in BOOLEAN,
          names \in FunctionLocalNames :
         /\ ctxs' = Append(ctxs,
                PythonChildContextBase("PythonFunctionContext", parent,
                                       Len(ctxs) + 1)
                @@ [ function |-> [ is_generator |-> is_generator ] ])
         /\ constants' = TableAfterAll(constants, SeqMap(Str, names))
         /\ interned' = InternedAfterAll(interned, constants, SeqMap(Str, names))
    /\ UNCHANGED << eval_orders_used, function_codes, contraction_codes,
                    class_codes, allocs, ret, nodeVars >>

\* PythonListContractionContext, PythonGeneratorExpressionContext,
\* PythonSetContractionContext, PythonDictContractionContext( parent, contraction )
NewContractionContext(limit) ==
    /\ Len(ctxs) < 1 + limit
    /\ \E parent \in Contexts, cls \in ContractionClasses :
         ctxs' = Append(ctxs, PythonChildContextBase(cls, parent, Len(ctxs) + 1))
    /\ UNCHANGED << constants, eval_orders_used, function_codes,
                    contraction_codes, class_codes, interned, allocs, ret,
                    nodeVars >>

\* PythonClassContext( parent, class_def )
NewClassContext(limit) ==
    /\ Len(ctxs) < 1 + limit
    /\ \E parent \in Contexts :
         ctxs' = Append(ctxs, PythonChildContextBase("PythonClassContext",
                                                     parent, Len(ctxs) + 1))
    /\ UNCHANGED << constants, eval_orders_used, function_codes,
                    contraction_codes, class_codes, interned, allocs, ret,
                    nodeVars >>

\* PythonExecInlineContext( parent )
NewExecInlineContext(limit) ==
    /\ Len(ctxs) < 1 + limit
    /\ \E parent \in Contexts :
         ctxs' = Append(ctxs, PythonChildContextBase("PythonExecInlineContext",
                                                     parent, Len(ctxs) + 1))
    /\ UNCHANGED << constants, eval_orders_used, function_codes,
                    contraction_codes, class_codes, interned, allocs, ret,
                    nodeVars >>

NewContext(limit) ==
    \/ NewFunctionContext(limit)
    \/ NewContractionContext(limit)
    \/ NewClassContext(limit)
    \/ NewExecInlineContext(limit)

\* ---------------------------------------------------------------------------
\* The variable handles of each class of context.
\* ---------------------------------------------------------------------------
\* PythonContextBase.getTempHandle
Base_getTempHandle(var_name) == TempObjectIdentifier(var_name, "")

\* a mutant of Function_getLocalHandle: the local is never taken from the context
Function_getLocalHandleDirect(c, var_name) ==
    LocalVariableIdentifier(var_name, PyFalse)

\* PythonFunctionContext.getLocalHandle
Function_getLocalHandle(c, var_name) ==
    LocalVariableIdentifier(var_name, PyBool(IsGenerator(c)))

\* PythonFunctionContext.getClosureHandle
Function_getClosureHandle(c, var_name) ==
    IF ~ IsGenerator(c)
    THEN ClosureVariableIdentifier(var_name, "_python_context->")
    ELSE ClosureVariableIdentifier(var_name, "_python_context->common_context->")

\* PythonFunctionContext.getTempHandle
Function_getTempHandle(c, var_name) ==
    IF IsGenerator(c)
    THEN TempObjectIdentifier(var_name, "_python_context->")
    ELSE TempObjectIdentifier(var_name, "")

\* PythonListContractionContext.getClosureHandle
List_getClosureHandle(var_name) == ClosureVariableIdentifier(var_name, "")

\* a mutant of List_getLocalHandle: a local of its own, as in the set and
\* dict contraction contexts
List_getLocalHandleAsLocal(var_name) ==
    LocalVariableIdentifier(var_name, PyFalse)

\* PythonListContractionContext.getLocalHandle
List_getLocalHandle(var_name) == List_getClosureHandle(var_name)

\* PythonGeneratorExpressionContext.getClosureHandle
GenExpr_getClosureHandle(var_name) ==
    ClosureVariableIdentifier(var_name, "_python_context->")

\* PythonGeneratorExpressionContext.getLocalHandle
GenExpr_getLocalHandle(var_name) == LocalVariableIdentifier(var_name, PyTrue)

\* PythonGeneratorExpressionContext.getTempHandle
GenExpr_getTempHandle(var_name) ==
    TempObjectIdentifier(var_name, "_python_context->")

\* PythonSetContractionContext.getClosureHandle
Set_getClosureHandle(var_name) == ClosureVariableIdentifier(var_name, "")

\* PythonSetContractionContext.getLocalHandle
Set_getLocalHandle(var_name) == LocalVariableIdentifier(var_name, PyFalse)

\* PythonDictContractionContext.getClosureHandle
Dict_getClosureHandle(var_name) == ClosureVariableIdentifier(var_name, "")

\* PythonDictContractionContext.getLocalHandle
Dict_getLocalHandle(var_name) == LocalVariableIdentifier(var_name, PyFalse)

\* PythonClassContext.getLocalHandle: from_context is left at its default
Class_getLocalHandle(var_name) == LocalVariableIdentifier(var_name, PyFalse)

\* PythonClassContext.getClosureHandle
Class_getClosureHandle(var_name) == ClosureVariableIdentifier(var_name, "")

\* getLocalHandle as the class of c defines it; PythonExecInlineContext asks
\* its parent, PythonModuleContext has no such method
RECURSIVE getLocalHandle(_, _)
getLocalHandle(c, var_name) ==
    CASE ctxs[c].cls = "PythonModuleContext" -> AttributeError
      [] ctxs[c].cls = "PythonFunctionContext" ->
             Function_getLocalHandle(c, var_name)
      [] ctxs[c].cls = "PythonListContractionContext" ->
             List_getLocalHandle(var_name)
      [] ctxs[c].cls = "PythonGeneratorExpressionContext" ->
             GenExpr_getLocalHandle(var_name)
      [] ctxs[c].cls = "PythonSetContractionContext" ->
             Set_getLocalHandle(var_name)
      [] ctxs[c].cls = "PythonDictContractionContext" ->
             Dict_getLocalHandle(var_name)
      [] ctxs[c].cls = "PythonClassContext" -> Class_getLocalHandle(var_name)
      [] ctxs[c].cls = "PythonExecInlineContext" ->
             getLocalHandle(ctxs[c].parent, var_name)

\* getClosureHandle as the class of c defines it; PythonExecInlineContext
\* returns self.parent.getLocalHandle( var_name )
getClosureHandle(c, var_name) ==
    CASE ctxs[c].cls = "PythonModuleContext" -> AttributeError
      [] ctxs[c].cls = "PythonFunctionContext" ->
             Function_getClosureHandle(c, var_name)
      [] ctxs[c].cls = "PythonListContractionContext" ->
             List_getClosureHandle(var_name)
      [] ctxs[c].cls = "PythonGeneratorExpressionContext" ->
             GenExpr_getClosureHandle(var_name)
      [] ctxs[c].cls = "PythonSetContractionContext" ->
             Set_getClosureHandle(var_name)
      [] ctxs[c].cls = "PythonDictContractionContext" ->
             Dict_getClosureHandle(var_name)
      [] ctxs[c].cls = "PythonClassContext" -> Class_getClosureHandle(var_name)
      [] ctxs[c].cls = "PythonExecInlineContext" ->
             getLocalHandle(ctxs[c].parent, var_name)

\* getTempHandle as the class of c defines it: only the function and the
\* generator expression contexts override PythonContextBase
getTempHandle(c, var_name) ==
    CASE ctxs[c].cls = "PythonFunctionContext" ->
             Function_getTempHandle(c, var_name)
      [] ctxs[c].cls = "PythonGeneratorExpressionContext" ->
             GenExpr_getTempHandle(var_name)
      [] OTHER -> Base_getTempHandle(var_name)

\* getFrameHandle as the class of c defines it: the module, function and class
\* contexts do, the contraction and inlined exec contexts have no such method
getFrameHandle(c) ==
    CASE ctxs[c].cls = "PythonModuleContext" ->
             Identifier("frame_guard.getFrame()", 1)
      [] ctxs[c].cls = "PythonFunctionContext" ->
             IF IsGenerator(c)
             THEN Identifier("generator->m_frame", 0)
             ELSE Identifier("frame_guard.getFrame()", 1)
      [] ctxs[c].cls = "PythonClassContext" ->
             Identifier("frame_guard.getFrame()", 1)
      [] OTHER -> AttributeError

\* what a method returning a bool returned
Returned(b) == [ cls |-> "bool", value |-> PyBool(b) ]

\* hasFrameGuard as the class of c defines it; the inlined exec context has no
\* such method
hasFrameGuard(c) ==
    CASE ctxs[c].cls = "PythonModuleContext" -> Returned(TRUE)
      [] ctxs[c].cls = "PythonFunctionContext" -> Returned(~ IsGenerator(c))
      [] ctxs[c].cls = "PythonListContractionContext" -> Returned(TRUE)
      [] ctxs[c].cls = "PythonGeneratorExpressionContext" -> Returned(FALSE)
      [] ctxs[c].cls = "PythonSetContractionContext" -> Returned(TRUE)
      [] ctxs[c].cls = "PythonDictContractionContext" -> Returned(TRUE)
      [] ctxs[c].cls = "PythonClassContext" -> Returned(TRUE)
      [] OTHER -> AttributeError

\* the parents met by calling getParent again and again, c first; it stops at
\* None, or when no steps are left
RECURSIVE ParentWalk(_, _)
ParentWalk(c, steps) ==
    IF c = NoneRef \/ c = GlobalRef \/ steps = 0 THEN << >>
    ELSE << c >> \o ParentWalk(getParent(c), steps - 1)

\* a call of getLocalHandle, getClosureHandle or getTempHandle
GetLocalHandle ==
    /\ \E c \in Contexts, var_name \in VarNames :
         ret' = [ op |-> "getLocalHandle", ctx |-> c, var_name |-> var_name,
                  value |-> getLocalHandle(c, var_name) ]
    /\ UNCHANGED << ctxs, constants, eval_orders_used, function_codes,
                    contraction_codes, class_codes, interned, allocs, nodeVars >>

GetClosureHandle ==
    /\ \E c \in Contexts, var_name \in VarNames :
         ret' = [ op |-> "getClosureHandle", ctx |-> c, var_name |-> var_name,
                  value |-> getClosureHandle(c, var_name) ]
    /\ UNCHANGED << ctxs, constants, eval_orders_used, function_codes,
                    contraction_codes, class_codes, interned, allocs, nodeVars >>

GetTempHandle ==
    /\ \E c \in Contexts, var_name \in VarNames :
         ret' = [ op |-> "getTempHandle", ctx |-> c, var_name |-> var_name,
                  value |-> getTempHandle(c, var_name) ]
    /\ UNCHANGED << ctxs, constants, eval_orders_used, function_codes,
                    contraction_codes, class_codes, interned, allocs, nodeVars >>

\* a call of getFrameHandle
GetFrameHandle ==
    /\ \E c \in Contexts :
         ret' = [ op |-> "getFrameHandle", ctx |-> c,
                  value |-> getFrameHandle(c) ]
    /\ UNCHANGED << ctxs, constants, eval_orders_used, function_codes,
                    contraction_codes, class_codes, interned, allocs, nodeVars >>

\* a call of hasFrameGuard
HasFrameGuard ==
    /\ \E c \in Contexts :
         ret' = [ op |-> "hasFrameGuard", ctx |-> c,
                  value |-> hasFrameGuard(c) ]
    /\ UNCHANGED << ctxs, constants, eval_orders_used, function_codes,
                    contraction_codes, class_codes, interned, allocs, nodeVars >>

\* a call of getParent
GetParent ==
    /\ \E c \in Contexts :
         ret' = [ op |-> "getParent", ctx |-> c, value |-> getParent(c) ]
    /\ UNCHANGED << ctxs, constants, eval_orders_used, function_codes,
                    contraction_codes, class_codes, interned, allocs, nodeVars >>

NextTree ==
    \/ NewContext(MaxTreeContexts)
    \/ GetLocalHandle
    \/ GetClosureHandle
    \/ GetTempHandle
    \/ GetFrameHandle
    \/ HasFrameGuard
    \/ GetParent

SpecTree == Init /\ [][NextTree]_vars

\* getConstantHandle( constant ) on any context: the child contexts and the
\* module context hand the call to the global context
GetConstantHandle ==
    /\ \E c \in Contexts \cup { GlobalRef }, constant \in ConstantInputs :
         /\ constants' = TableAfter(constants, constant)
         /\ interned' = InternedAfterAll(interned, constants, << constant >>)
         /\ ret' = [ op |-> "getConstantHandle", ctx |-> c,
                     constant |-> constant,
                     value |-> HandleOf(constants', constant) ]
    /\ UNCHANGED << ctxs, eval_orders_used, function_codes, contraction_codes,
                    class_codes, allocs, nodeVars >>

NextPool == NewContext(MaxPoolContexts) \/ GetConstantHandle

SpecPool == Init /\ [][NextPool]_vars

\* ---------------------------------------------------------------------------
\* The evaluation orders used, a set of the global context.
\* ---------------------------------------------------------------------------
\* the values handed to addEvalOrderUse, all of type int
EvalOrderValues == 1 .. MaxEvalOrder

\* a mutant of Global_addEvalOrderUse: the set is started again
Global_addEvalOrderUseReset(used, value) == (2 .. 5) \cup { value }

\* PythonGlobalContext.addEvalOrderUse: self.eval_orders_used after the call
Global_addEvalOrderUse(used, value) == used \cup { value }

\* PythonGlobalContext.getEvalOrdersUsed
getEvalOrdersUsed == eval_orders_used

\* addEvalOrderUse( value ) on any context: a child context hands the call to
\* its parent, the module context hands it to the global context
AddEvalOrderUse ==
    /\ \E c \in Contexts \cup { GlobalRef }, value \in EvalOrderValues :
         /\ c # GlobalRef => ctxs[ForwardedTo(c)].global_context = GlobalRef
         /\ eval_orders_used' = Global_addEvalOrderUse(eval_orders_used, value)
         /\ ret' = [ op |-> "addEvalOrderUse", ctx |-> c, value |-> value ]
    /\ UNCHANGED << ctxs, constants, function_codes, contraction_codes,
                    class_codes, interned, allocs, nodeVars >>

\* the set is reached the same way from every class of child context (none
\* overrides addEvalOrderUse of PythonChildContextBase), so the contexts of
\* this specification are class and inlined exec contexts
NextEvalOrder ==
    \/ NewClassContext(MaxEvalContexts)
    \/ NewExecInlineContext(MaxEvalContexts)
    \/ AddEvalOrderUse

SpecEvalOrder == Init /\ [][NextEvalOrder]_vars

\* ---------------------------------------------------------------------------
\* The loop, try and with numbers of a context.
\* ---------------------------------------------------------------------------
CounterNames ==
    { "for_loop_count", "while_loop_count", "try_count", "with_count" }

\* PythonContextBase.allocateForLoopNumber: the context after the call
allocateForLoopNumber(self) == [ self EXCEPT !.for_loop_count = @ + 1 ]

\* a mutant of allocateWhileLoopNumber: it counts a for loop
allocateWhileLoopNumberAsFor(self) == [ self EXCEPT !.for_loop_count = @ + 1 ]

\* PythonContextBase.allocateWhileLoopNumber: the context after the call
allocateWhileLoopNumber(self) == [ self EXCEPT !.while_loop_count = @ + 1 ]

\* PythonContextBase.allocateTryNumber: the context after the call
allocateTryNumber(self) == [ self EXCEPT !.try_count = @ + 1 ]

\* PythonContextBase.allocateWithNumber: the context after the call
allocateWithNumber(self) == [ self EXCEPT !.with_count = @ + 1 ]

AllocateForLoopNumber ==
    /\ allocs < MaxAllocs
    /\ \E c \in Contexts :
         /\ ctxs' = [ ctxs EXCEPT ![c] = allocateForLoopNumber(ctxs[c]) ]
         /\ ret' = [ op |-> "allocateForLoopNumber", ctx |-> c,
                     value |-> ctxs'[c].for_loop_count ]
    /\ allocs' = allocs + 1
    /\ UNCHANGED << constants, eval_orders_used, function_codes,
                    contraction_codes, class_codes, interned, nodeVars >>

AllocateWhileLoopNumber ==
    /\ allocs < MaxAllocs
    /\ \E c \in Contexts :
         /\ ctxs' = [ ctxs EXCEPT ![c] = allocateWhileLoopNumber(ctxs[c]) ]
         /\ ret' = [ op |-> "allocateWhileLoopNumber", ctx |-> c,
                     value |-> ctxs'[c].while_loop_count ]
    /\ allocs' = allocs + 1
    /\ UNCHANGED << constants, eval_orders_used, function_codes,
                    contraction_codes, class_codes, interned, nodeVars >>

AllocateTryNumber ==
    /\ allocs < MaxAllocs
    /\ \E c \in Contexts :
         /\ ctxs' = [ ctxs EXCEPT ![c] = allocateTryNumber(ctxs[c]) ]
         /\ ret' = [ op |-> "allocateTryNumber", ctx |-> c,
                     value |-> ctxs'[c].try_count ]
    /\ allocs' = allocs + 1
    /\ UNCHANGED << constants, eval_orders_used, function_codes,
                    contraction_codes, class_codes, interned, nodeVars >>

AllocateWithNumber ==
    /\ allocs < MaxAllocs
    /\ \E c \in Contexts :
         /\ ctxs' = [ ctxs EXCEPT ![c] = allocateWithNumber(ctxs[c]) ]
         /\ ret' = [ op |-> "allocateWithNumber", ctx |-> c,
                     value |-> ctxs'[c].with_count ]
    /\ allocs' = allocs + 1
    /\ UNCHANGED << constants, eval_orders_used, function_codes,
                    contraction_codes, class_codes, interned, nodeVars >>

NextCounters ==
    \/ NewContext(MaxCounterContexts)
    \/ AllocateForLoopNumber
    \/ AllocateWhileLoopNumber
    \/ AllocateTryNumber
    \/ AllocateWithNumber

SpecCounters == Init /\ [][NextCounters]_vars

\* ---------------------------------------------------------------------------
\* The code registries of the module context.  A call on a child context is
\* handed from parent to parent until it reaches the module context.
\* ---------------------------------------------------------------------------
CodeNames == { "f", "g" }

\* the ( declaration, body ) pairs handed in
CodePairs == { << "decl_1", "body_1" >>, << "decl_2", "body_2" >> }

\* a mutant of Module_addFunctionCodes: no assertion, the entry is overwritten
Module_addFunctionCodesNoAssert(codes, code_name, pair) ==
    [ raised |-> FALSE,
      codes |-> [ k \in DOMAIN codes \cup { code_name } |->
                    IF k = code_name THEN pair ELSE codes[k] ] ]

\* PythonModuleContext.addFunctionCodes: whether the assertion fails, and
\* self.function_codes after the call
Module_addFunctionCodes(codes, code_name, pair) ==
    IF code_name \in DOMAIN codes
    THEN [ raised |-> TRUE, codes |-> codes ]
    ELSE [ raised |-> FALSE,
           codes |-> [ k \in DOMAIN codes \cup { code_name } |->
                         IF k = code_name THEN pair ELSE codes[k] ] ]

\* PythonModuleContext.addContractionCodes
Module_addContractionCodes(codes, code_name, pair) ==
    IF code_name \in DOMAIN codes
    THEN [ raised |-> TRUE, codes |-> codes ]
    ELSE [ raised |-> FALSE,
           codes |-> [ k \in DOMAIN codes \cup { code_name } |->
                         IF k = code_name THEN pair ELSE codes[k] ] ]

\* PythonModuleContext.addClassCodes
Module_addClassCodes(codes, code_name, pair) ==
    IF code_name \in DOMAIN codes
    THEN [ raised |-> TRUE, codes |-> codes ]
    ELSE [ raised |-> FALSE,
           codes |-> [ k \in DOMAIN codes \cup { code_name } |->
                         IF k = code_name THEN pair ELSE codes[k] ] ]

\* addFunctionCodes( code_name, function_decl, function_code ) on any context
AddFunctionCodes ==
    /\ \E c \in Contexts, code_name \in CodeNames, pair \in CodePairs :
         LET r == Module_addFunctionCodes(function_codes, code_name, pair)
         IN  /\ IsModule(ForwardedTo(c))
             /\ function_codes' = r.codes
             /\ ret' = [ op |-> "addFunctionCodes", ctx |-> c,
                         code_name |-> code_name, pair |-> pair,
                         raised |-> r.raised ]
    /\ UNCHANGED << ctxs, constants, eval_orders_used, contraction_codes,
                    class_codes, interned, allocs, nodeVars >>

\* addContractionCodes( code_name, contraction_decl, contraction_code )
AddContractionCodes ==
    /\ \E c \in Contexts, code_name \in CodeNames, pair \in CodePairs :
         LET r == Module_addContractionCodes(contraction_codes, code_name, pair)
         IN  /\ IsModule(ForwardedTo(c))
             /\ contraction_codes' = r.codes
             /\ ret' = [ op |-> "addContractionCodes", ctx |-> c,
                         code_name |-> code_name, pair |-> pair,
                         raised |-> r.raised ]
    /\ UNCHANGED << ctxs, constants, eval_orders_used, function_codes,
                    class_codes, interned, allocs, nodeVars >>

\* addClassCodes( code_name, class_decl, class_code )
AddClassCodes ==
    /\ \E c \in Contexts, code_name \in CodeNames, pair \in CodePairs :
         LET r == Module_addClassCodes(class_codes, code_name, pair)
         IN  /\ IsModule(ForwardedTo(c))
             /\ class_codes' = r.codes
             /\ ret' = [ op |-> "addClassCodes", ctx |-> c,
                         code_name |-> code_name, pair |-> pair,
                         raised |-> r.raised ]
    /\ UNCHANGED << ctxs, constants, eval_orders_used, function_codes,
                    contraction_codes, interned, allocs, nodeVars >>

\* the registries are reached the same way from every class of child context
\* (none overrides the methods of PythonChildContextBase), so the contexts of
\* this specification are class and inlined exec contexts
NextRegistry ==
    \/ NewClassContext(MaxRegistryContexts)
    \/ NewExecInlineContext(MaxRegistryContexts)
    \/ AddFunctionCodes
    \/ AddContractionCodes
    \/ AddClassCodes

SpecRegistry == Init /\ [][NextRegistry]_vars

\* ---------------------------------------------------------------------------
\* The built-in type nodes.  A child expression is what the node asks of it:
\* its kind, whether it is a compile time constant, its truth value as
\* getTruthValue() tells it, and its iteration length.
\* ---------------------------------------------------------------------------
\* value.getIterationLength() <= 256
FoldLimit == 256

Expr(kind, constant, truth, length) ==
    [ kind |-> kind, constant |-> constant, truth |-> truth, length |-> length ]

\* a child that was not given: None
NoArg == Expr("None", FALSE, "None", 0)

XrangeRef(n) ==
    Expr("EXPRESSION_CONSTANT_XRANGE_REF", TRUE,
         IF n > 0 THEN "True" ELSE "False", n)

RangeLengths ==
    { 0, 10000 } \cup ((FoldLimit - MaxDelta) .. (FoldLimit + MaxDelta))

\* an empty list constant, a string constant, a variable of unknown value and
\* a list made of calls, which is true whatever the calls return
ConstEmptyList == Expr("EXPRESSION_CONSTANT_REF", TRUE, "False", 0)
ConstString == Expr("EXPRESSION_CONSTANT_REF", TRUE, "True", 3)
VariableRef == Expr("EXPRESSION_VARIABLE_REF", FALSE, "None", 0)
MakeList == Expr("EXPRESSION_MAKE_LIST", FALSE, "True", 2)

PlainArgs == { NoArg, ConstEmptyList, ConstString, VariableRef, MakeList }

ValueArgs == PlainArgs \cup { XrangeRef(n) : n \in RangeLengths }

TextArgs == { NoArg, ConstString, VariableRef }

ContainerKinds ==
    { "EXPRESSION_BUILTIN_TUPLE", "EXPRESSION_BUILTIN_LIST",
      "EXPRESSION_BUILTIN_SET", "EXPRESSION_BUILTIN_FROZENSET" }

UnicodeKinds == { "EXPRESSION_BUILTIN_STR", "EXPRESSION_BUILTIN_BYTES" }

\* what the builtin spec of the node makes of the values it is given: it is
\* free to leave the node as it is, or to compute the call at compile time
SpecDecisions == { "no change", "compute" }

isExpressionConstantXrangeRef(value) ==
    value.kind = "EXPRESSION_CONSTANT_XRANGE_REF"

getIterationLength(value) == value.length

\* getTruthValue(): "True", "False", or "None" when it is not known
getTruthValue(value) == value.truth

\* return self, None, None
Unchanged(self) == [ node |-> self, tags |-> "None", desc |-> "None" ]

\* makeConstantReplacementNode( constant, node )
makeConstantReplacementNode(constant, self) ==
    [ kind |-> "EXPRESSION_CONSTANT_REF", constant |-> constant,
      source_ref |-> self.kind ]

\* wrapExpressionWithNodeSideEffects( new_node, old_node ): new_node, with
\* old_node still evaluated for its side effects
wrapExpressionWithNodeSideEffects(new_node, old_node) ==
    [ kind |-> "EXPRESSION_SIDE_EFFECTS", expression |-> new_node,
      side_effects |-> old_node ]

\* the calls a node makes on the trace collection and on its builtin spec
RemoveKnowledge(arg) == [ call |-> "removeKnowledge", value |-> arg ]
OnControlFlowEscape(self) == [ call |-> "onControlFlowEscape", node |-> self ]
OnExceptionRaiseExit(exc) == [ call |-> "onExceptionRaiseExit", exception |-> exc ]
ComputeBuiltinSpec(given_values, returned) ==
    [ call |-> "computeBuiltinSpec", given_values |-> given_values,
      returned |-> returned ]

\* the outcome of a computeExpression: the calls made and the triple returned
Outcome(calls, triple) == [ trace |-> calls, result |-> triple ]

\* self.computeBuiltinSpec( trace_collection, given_values ): the builtin spec
\* can compute the call only from values known at compile time
computeBuiltinSpec(self, given_values, decision) ==
    LET returned ==
            IF decision = "compute"
               /\ \A i \in DOMAIN given_values :
                    given_values[i] # NoArg => given_values[i].constant
            THEN [ node |-> makeConstantReplacementNode("computed", self),
                   tags |-> "new_constant",
                   desc |-> "Built-in call precomputed" ]
            ELSE Unchanged(self)
    IN  Outcome(<< ComputeBuiltinSpec(given_values, returned) >>, returned)

\* a mutant of Container_computeExpression: the limit is not included
Container_computeExpressionBelowLimit(self, decision) ==
    LET value == self.value
    IN  IF value = NoArg
        THEN computeBuiltinSpec(self, << >>, decision)
        ELSE IF isExpressionConstantXrangeRef(value)
        THEN IF getIterationLength(value) < FoldLimit
             THEN computeBuiltinSpec(self, << value >>, decision)
             ELSE Outcome(<< >>, Unchanged(self))
        ELSE computeBuiltinSpec(self, << value >>, decision)

\* ExpressionBuiltinContainerBase.computeExpression
Container_computeExpression(self, decision) ==
    LET value == self.value
    IN  IF value = NoArg
        THEN computeBuiltinSpec(self, << >>, decision)
        ELSE IF isExpressionConstantXrangeRef(value)
        THEN IF getIterationLength(value) <= FoldLimit
             THEN computeBuiltinSpec(self, << value >>, decision)
             ELSE Outcome(<< >>, Unchanged(self))
        ELSE computeBuiltinSpec(self, << value >>, decision)

\* ExpressionBuiltinTypeBase.computeExpression, of ExpressionBuiltinSingleArgBase
TypeBase_computeExpression(self, decision) ==
    IF self.value = NoArg
    THEN computeBuiltinSpec(self, << >>, decision)
    ELSE computeBuiltinSpec(self, << self.value >>, decision)

\* a mutant of Bool_computeExpression: the argument is dropped, not wrapped
Bool_computeExpressionNoWrap(self, decision) ==
    IF self.value # NoArg /\ getTruthValue(self.value) # "None"
    THEN Outcome(<< >>,
            [ node |-> makeConstantReplacementNode(getTruthValue(self.value),
                                                   self),
              tags |-> "new_constant",
              desc |-> "Predicted truth value of built-in bool argument" ])
    ELSE TypeBase_computeExpression(self, decision)

\* ExpressionBuiltinBool.computeExpression
Bool_computeExpression(self, decision) ==
    IF self.value # NoArg /\ getTruthValue(self.value) # "None"
    THEN Outcome(<< >>,
            [ node |-> wrapExpressionWithNodeSideEffects(
                           makeConstantReplacementNode(
                               getTruthValue(self.value), self),
                           self.value),
              tags |-> "new_constant",
              desc |-> "Predicted truth value of built-in bool argument" ])
    ELSE TypeBase_computeExpression(self, decision)

\* while args and args[-1] is None: del args[-1]
RECURSIVE DropTrailingNone(_)
DropTrailingNone(args) ==
    IF args # << >> /\ args[Len(args)] = NoArg
    THEN DropTrailingNone(SubSeq(args, 1, Len(args) - 1))
    ELSE args

\* a mutant of Unicode_computeExpression: no knowledge is removed
Unicode_computeExpressionNoRemove(self, decision) ==
    LET args == DropTrailingNone(<< self.value, self.encoding, self.errors >>)
        spec == computeBuiltinSpec(self, args, decision)
    IN  Outcome(<< OnControlFlowEscape(self) >> \o spec.trace, spec.result)

\* a mutant of Unicode_computeExpression: the builtin spec is asked before the
\* control flow escape is recorded
Unicode_computeExpressionSpecFirst(self, decision) ==
    LET args == DropTrailingNone(<< self.value, self.encoding, self.errors >>)
        spec == computeBuiltinSpec(self, args, decision)
    IN  Outcome([ i \in DOMAIN args |-> RemoveKnowledge(args[i]) ]
                \o spec.trace \o << OnControlFlowEscape(self) >>,
                spec.result)

\* ExpressionBuiltinUnicodeBase.computeExpression
Unicode_computeExpression(self, decision) ==
    LET args == DropTrailingNone(<< self.value, self.encoding, self.errors >>)
        spec == computeBuiltinSpec(self, args, decision)
    IN  Outcome([ i \in DOMAIN args |-> RemoveKnowledge(args[i]) ]
                \o << OnControlFlowEscape(self) >> \o spec.trace,
                spec.result)

\* a mutant of Bytearray3_computeExpression: the exception exit is not recorded
Bytearray3_computeExpressionSilent(self) == Outcome(<< >>, Unchanged(self))

\* ExpressionBuiltinBytearray3.computeExpression
Bytearray3_computeExpression(self) ==
    Outcome(<< OnExceptionRaiseExit("BaseException") >>, Unchanged(self))

\* ExpressionBuiltinComplex.computeExpression
Complex_computeExpression(self, decision) ==
    computeBuiltinSpec(self, << self.real, self.imag >>, decision)

\* computeExpression on a tuple, list, set or frozenset node
ComputeContainer ==
    /\ \E kind \in ContainerKinds, value \in ValueArgs,
          decision \in SpecDecisions :
         LET self == [ kind |-> kind, value |-> value ]
             out == Container_computeExpression(self, decision)
         IN  node' = self /\ trace' = out.trace /\ result' = out.result
    /\ UNCHANGED ctxVars

\* computeExpression on a bool node
ComputeBool ==
    /\ \E value \in ValueArgs, decision \in SpecDecisions :
         LET self == [ kind |-> "EXPRESSION_BUILTIN_BOOL", value |-> value ]
             out == Bool_computeExpression(self, decision)
         IN  node' = self /\ trace' = out.trace /\ result' = out.result
    /\ UNCHANGED ctxVars

\* computeExpression on a str or bytes node
ComputeUnicode ==
    /\ \E kind \in UnicodeKinds, value \in TextArgs, encoding \in TextArgs,
          errors \in TextArgs, decision \in SpecDecisions :
         LET self == [ kind |-> kind, value |-> value, encoding |-> encoding,
                       errors |-> errors ]
             out == Unicode_computeExpression(self, decision)
         IN  node' = self /\ trace' = out.trace /\ result' = out.result
    /\ UNCHANGED ctxVars

\* computeExpression on a bytearray node of three arguments
ComputeBytearray3 ==
    /\ \E string \in TextArgs, encoding \in TextArgs, errors \in TextArgs :
         LET self == [ kind |-> "EXPRESSION_BUILTIN_BYTEARRAY3",
                       string |-> string, encoding |-> encoding,
                       errors |-> errors ]
             out == Bytearray3_computeExpression(self)
         IN  node' = self /\ trace' = out.trace /\ result' = out.result
    /\ UNCHANGED ctxVars

\* computeExpression on a complex node
ComputeComplex ==
    /\ \E real \in PlainArgs, imag \in PlainArgs, decision \in SpecDecisions :
         LET self == [ kind |-> "EXPRESSION_BUILTIN_COMPLEX", real |-> real,
                       imag |-> imag ]
             out == Complex_computeExpression(self, decision)
         IN  node' = self /\ trace' = out.trace /\ result' = out.result
    /\ UNCHANGED ctxVars

NextNodes ==
    \/ ComputeContainer
    \/ ComputeBool
    \/ ComputeUnicode
    \/ ComputeBytearray3
    \/ ComputeComplex

SpecNodes == Init /\ [][NextNodes]_vars

\* ===========================================================================
\* The claims.
\* ===========================================================================

\* C1 (SpecPool): every lookup of the constant table that was ever answered is
\* still answered the same way: the key of the constant is in the table, the
\* table holds the name that was returned, and two constants of one key, such
\* as two printings of one dictionary, were given one name.
C1_PoolIdempotence ==
    \A p \in interned :
        /\ ConstantKey(p.constant) \in DOMAIN constants
        /\ constants[ConstantKey(p.constant)] = p.code
        /\ \A q \in interned :
               ConstantKey(q.constant) = ConstantKey(p.constant)
                   => q.code = p.code

\* two constants of one key and two printable forms were both looked up, the
\* second one last
C1_Witness ==
    /\ \E p \in interned : p.constant = DictAB
    /\ ret.op = "getConstantHandle"
    /\ ret.constant = DictBA
    /\ ret.value.code = "_python_" \o namifyConstant(DictAB)

NoDuplicates(w) == \A i, j \in DOMAIN w : w[i] = w[j] => i = j

\* C2 as amended (SpecTree): from every context, following getParent visits
\* no context twice and ends, after at most as many contexts as there are, at
\* the module context, whose getParent is None; the global context is never
\* visited, it is what the module context holds as global_context.
C2_ParentWalkEndsAtModule ==
    \A c \in Contexts :
        LET w == ParentWalk(c, Len(ctxs) + 1)
        IN  /\ Len(w) >= 1
            /\ Len(w) <= Len(ctxs)
            /\ NoDuplicates(w)
            /\ w[Len(w)] = ModuleRef
            /\ getParent(w[Len(w)]) = NoneRef
            /\ GlobalRef \notin Range(w)
            /\ ctxs[w[Len(w)]].global_context = GlobalRef

\* a context two levels below the module context, and getParent called on it
C2_Witness ==
    /\ ret.op = "getParent"
    /\ ret.value # NoneRef
    /\ getParent(ret.value) # NoneRef
    /\ Len(ParentWalk(ret.ctx, Len(ctxs) + 1)) = 3

\* C2 as claimed: from every context, following getParent visits no context
\* twice and ends at the global context.
C2_ParentWalkEndsAtGlobal ==
    \A c \in Contexts :
        LET w == ParentWalk(c, Len(ctxs) + 1)
        IN  /\ Len(w) >= 1
            /\ Len(w) <= Len(ctxs)
            /\ NoDuplicates(w)
            /\ getParent(w[Len(w)]) = GlobalRef

\* C3 as amended (SpecTree): in the context of a generator function the
\* local, closure and temp handles of every name are taken from the context;
\* in the context of any other function the local and temp handles are direct
\* and the closure handle is taken from "_python_context->".
C3_FunctionHandles ==
    \A c \in Contexts : IsFunction(c) =>
        \A v \in VarNames :
            IF IsGenerator(c)
            THEN /\ ViaContext(getLocalHandle(c, v))
                 /\ ViaContext(getTempHandle(c, v))
                 /\ getClosureHandle(c, v).from_context
                        = "_python_context->common_context->"
            ELSE /\ ~ ViaContext(getLocalHandle(c, v))
                 /\ ~ ViaContext(getTempHandle(c, v))
                 /\ getClosureHandle(c, v).from_context = "_python_context->"

\* the closure handle of a function that is no generator was asked for, and
\* there is a generator function as well
C3_Witness ==
    /\ ret.op = "getClosureHandle"
    /\ IsFunction(ret.ctx)
    /\ ~ IsGenerator(ret.ctx)
    /\ ViaContext(ret.value)
    /\ \E c \in Contexts : IsFunction(c) /\ IsGenerator(c)

\* C3 as claimed: in the context of a generator function all three handles
\* are taken from the context, in the context of any other function all three
\* are direct.
C3_FunctionHandlesAllDirect ==
    \A c \in Contexts : IsFunction(c) =>
        \A v \in VarNames :
            /\ ViaContext(getLocalHandle(c, v)) = IsGenerator(c)
            /\ ViaContext(getClosureHandle(c, v)) = IsGenerator(c)
            /\ ViaContext(getTempHandle(c, v)) = IsGenerator(c)

\* C4 as claimed (SpecTree): the local handle of an inlined exec context is
\* the local handle of its parent, and its closure handle is the closure
\* handle of its parent, for every name.
C4_ExecInlineDelegates ==
    \A c \in Contexts : ctxs[c].cls = "PythonExecInlineContext" =>
        \A v \in VarNames :
            /\ getLocalHandle(c, v) = getLocalHandle(ctxs[c].parent, v)
            /\ getClosureHandle(c, v) = getClosureHandle(ctxs[c].parent, v)

\* C5 (SpecNodes): a tuple, list, set or frozenset node of a constant range
\* longer than 256 returns itself and makes no call; of a range of 256 or less
\* it makes one call, computeBuiltinSpec with the range as the one given
\* value, and returns what that call returned.
C5_ContainerRange ==
    (node.kind \in ContainerKinds /\ isExpressionConstantXrangeRef(node.value))
    => IF getIterationLength(node.value) > FoldLimit
       THEN trace = << >> /\ result = Unchanged(node)
       ELSE /\ Len(trace) = 1
            /\ trace[1].call = "computeBuiltinSpec"
            /\ trace[1].given_values = << node.value >>
            /\ result = trace[1].returned

\* a range of exactly 256 was folded to a constant
C5_Witness ==
    /\ node.kind \in ContainerKinds
    /\ isExpressionConstantXrangeRef(node.value)
    /\ getIterationLength(node.value) = FoldLimit
    /\ result.tags = "new_constant"

\* C6 (SpecNodes): a bool node whose argument is there and has a known truth
\* value returns the constant of that truth value wrapped with the argument
\* for its side effects, tagged "new_constant", and does not call
\* computeBuiltinSpec; a bool node without argument or of unknown truth
\* returns what computeBuiltinSpec returned.
C6_BoolTruthValue ==
    node.kind = "EXPRESSION_BUILTIN_BOOL" =>
        IF node.value # NoArg /\ getTruthValue(node.value) # "None"
        THEN /\ trace = << >>
             /\ result.tags = "new_constant"
             /\ result.node.kind = "EXPRESSION_SIDE_EFFECTS"
             /\ result.node.side_effects = node.value
             /\ result.node.expression.kind = "EXPRESSION_CONSTANT_REF"
             /\ result.node.expression.constant = getTruthValue(node.value)
        ELSE /\ Len(trace) = 1
             /\ trace[1].call = "computeBuiltinSpec"
             /\ result = trace[1].returned

\* bool of a list made of calls: true, and the calls are kept
C6_Witness ==
    /\ node.kind = "EXPRESSION_BUILTIN_BOOL"
    /\ node.value = MakeList
    /\ result.tags = "new_constant"
    /\ result.node.side_effects = MakeList

\* C7 as amended (SpecNodes): a str node with a value and an encoding first
\* calls removeKnowledge on the value, and returns what computeBuiltinSpec
\* returned for the given values (value, encoding and, if there, errors):
\* itself when the builtin spec leaves it, a constant when the builtin spec
\* computes one.
C7_StrEncodingEscapes ==
    (/\ node.kind = "EXPRESSION_BUILTIN_STR"
     /\ node.value # NoArg
     /\ node.encoding # NoArg)
    => /\ Len(trace) >= 1
       /\ trace[1] = RemoveKnowledge(node.value)
       /\ trace[Len(trace)].call = "computeBuiltinSpec"
       /\ trace[Len(trace)].given_values
              = DropTrailingNone(<< node.value, node.encoding, node.errors >>)
       /\ result = trace[Len(trace)].returned
       /\ \A i \in 1 .. (Len(trace) - 1) : trace[i].call # "computeBuiltinSpec"

\* str of a constant with a constant encoding became a constant
C7_Witness ==
    /\ node.kind = "EXPRESSION_BUILTIN_STR"
    /\ node.value = ConstString
    /\ node.encoding = ConstString
    /\ trace[1] = RemoveKnowledge(ConstString)
    /\ result.tags = "new_constant"

\* C7 as claimed: a str node with a value and an encoding calls
\* removeKnowledge on the value and returns itself, unchanged.
C7_StrEncodingNeverFolds ==
    (/\ node.kind = "EXPRESSION_BUILTIN_STR"
     /\ node.value # NoArg
     /\ node.encoding # NoArg)
    => /\ \E i \in DOMAIN trace : trace[i] = RemoveKnowledge(node.value)
       /\ result = Unchanged(node)

\* getFunctionsCodes, getContractionsCodes, getClassesCodes
getFunctionsCodes == function_codes
getContractionsCodes == contraction_codes
getClassesCodes == class_codes

\* one step as seen through the getter of one registry: no entry is removed
\* or changed; a new entry is the pair of the call just made, which did not
\* fail; a call fails exactly when its name was there already
RegistryStep(op, before, after) ==
    /\ \A n \in DOMAIN before : n \in DOMAIN after /\ after[n] = before[n]
    /\ \A n \in DOMAIN after \ DOMAIN before :
           /\ ret'.op = op
           /\ ret'.code_name = n
           /\ ~ ret'.raised
           /\ after[n] = ret'.pair
    /\ (ret' # ret /\ ret'.op = op) =>
           /\ ret'.raised = (ret'.code_name \in DOMAIN before)
           /\ ret'.code_name \in DOMAIN after
           /\ ~ ret'.raised => after[ret'.code_name] = ret'.pair

\* C8 (SpecRegistry): for functions, contractions and classes alike, and
\* whichever context the call was made on: registering a name that is
\* registered fails and leaves the stored pair as it is; registering a new
\* name stores the pair handed in, which the getter returns.
C8_RegistryUnique ==
    [][ /\ RegistryStep("addFunctionCodes", getFunctionsCodes,
                        getFunctionsCodes')
        /\ RegistryStep("addContractionCodes", getContractionsCodes,
                        getContractionsCodes')
        /\ RegistryStep("addClassCodes", getClassesCodes, getClassesCodes')
      ]_vars

\* a second registration of a function name, made on a child context, failed
\* and the first pair is still there
C8_Witness ==
    /\ ret.op = "addFunctionCodes"
    /\ ret.ctx # ModuleRef
    /\ ret.raised
    /\ getFunctionsCodes[ret.code_name] # ret.pair

AllocateOps ==
    { "allocateForLoopNumber", "allocateWhileLoopNumber", "allocateTryNumber",
      "allocateWithNumber" }

\* the counter that an allocate call is to raise
CounterOf(op) ==
    CASE op = "allocateForLoopNumber" -> "for_loop_count"
      [] op = "allocateWhileLoopNumber" -> "while_loop_count"
      [] op = "allocateTryNumber" -> "try_count"
      [] op = "allocateWithNumber" -> "with_count"

RECURSIVE CounterTotal(_)
CounterTotal(cs) ==
    IF cs = << >> THEN 0
    ELSE Head(cs).for_loop_count + Head(cs).while_loop_count
         + Head(cs).try_count + Head(cs).with_count + CounterTotal(Tail(cs))

\* the counters never go below 0 and add up to the number of calls
CountersCountCalls ==
    /\ \A c \in Contexts, k \in CounterNames : ctxs[c][k] >= 0
    /\ CounterTotal(ctxs) = allocs

\* a new context starts at 0; an allocate call raises its counter of its
\* context by 1 and returns the new value, all other counters keep their
\* value; no other step changes a counter
CounterStep ==
    /\ Len(ctxs') >= Len(ctxs)
    /\ \A c \in (Len(ctxs) + 1) .. Len(ctxs') :
           \A k \in CounterNames : ctxs'[c][k] = 0
    /\ IF allocs' # allocs
       THEN /\ ret'.op \in AllocateOps
            /\ ret'.ctx \in Contexts
            /\ ctxs'[ret'.ctx][CounterOf(ret'.op)]
                   = ctxs[ret'.ctx][CounterOf(ret'.op)] + 1
            /\ ret'.value = ctxs'[ret'.ctx][CounterOf(ret'.op)]
            /\ ret'.value > ctxs[ret'.ctx][CounterOf(ret'.op)]
            /\ \A c \in Contexts, k \in CounterNames :
                   (c # ret'.ctx \/ k # CounterOf(ret'.op))
                       => ctxs'[c][k] = ctxs[c][k]
       ELSE \A c \in Contexts, k \in CounterNames : ctxs'[c][k] = ctxs[c][k]

\* C9 (SpecCounters): the four counters of every context start at 0; each
\* allocate call raises exactly its counter of exactly its context by 1 and
\* returns the new value, so that the numbers one allocator returns on one
\* context increase strictly; nothing else changes a counter.
C9_CountersMonotone == [] CountersCountCalls /\ [][CounterStep]_vars

\* a child context handed out the while loop number 2 while its parent, the
\* module context, still has every counter at 0
C9_Witness ==
    /\ ret.op = "allocateWhileLoopNumber"
    /\ ret.ctx # ModuleRef
    /\ ret.value = 2
    /\ ctxs[ret.ctx].for_loop_count = 0
    /\ \A k \in CounterNames : ctxs[ModuleRef][k] = 0

\* C10 (SpecNodes): a bytearray node of three arguments, whatever they are,
\* makes one call, onExceptionRaiseExit( BaseException ), and returns itself.
C10_Bytearray3NeverFolds ==
    node.kind = "EXPRESSION_BUILTIN_BYTEARRAY3" =>
        /\ trace = << OnExceptionRaiseExit("BaseException") >>
        /\ result = Unchanged(node)

\* bytearray of a constant string with a constant encoding and no errors
C10_Witness ==
    /\ node.kind = "EXPRESSION_BUILTIN_BYTEARRAY3"
    /\ node.string = ConstString
    /\ node.encoding = ConstString
    /\ node.errors = NoArg
    /\ Len(trace) = 1
    /\ result.node = node


\* C11 as amended (SpecTree): in the list, set and dict contraction contexts
\* the local and the closure handle of every name are direct; in the list
\* contraction context the local handle is the closure handle, in the set and
\* dict contraction contexts it is a local variable handle of its own.
C11_ContractionHandles ==
    \A c \in Contexts :
        ctxs[c].cls \in { "PythonListContractionContext",
                          "PythonSetContractionContext",
                          "PythonDictContractionContext" } =>
            \A v \in VarNames :
                /\ getClosureHandle(c, v) = ClosureVariableIdentifier(v, "")
                /\ ~ ViaContext(getClosureHandle(c, v))
                /\ ~ ViaContext(getLocalHandle(c, v))
                /\ IF ctxs[c].cls = "PythonListContractionContext"
                   THEN getLocalHandle(c, v) = getClosureHandle(c, v)
                   ELSE getLocalHandle(c, v) = LocalVariableIdentifier(v, PyFalse)

\* the local handle of a set contraction context was asked for, next to a
\* list contraction context
C11_Witness ==
    /\ ret.op = "getLocalHandle"
    /\ ctxs[ret.ctx].cls = "PythonSetContractionContext"
    /\ ret.value.cls = "LocalVariableIdentifier"
    /\ \E c \in Contexts : ctxs[c].cls = "PythonListContractionContext"

\* C11 as claimed: in the list, set and dict contraction contexts the local
\* handle of every name is the closure handle, which is direct.
C11_LocalIsClosure ==
    \A c \in Contexts :
        ctxs[c].cls \in { "PythonListContractionContext",
                          "PythonSetContractionContext",
                          "PythonDictContractionContext" } =>
            \A v \in VarNames :
                /\ getLocalHandle(c, v) = getClosureHandle(c, v)
                /\ ~ ViaContext(getClosureHandle(c, v))


\* a step either leaves the set as it is or is a call of addEvalOrderUse that
\* adds the value handed in, and touches nothing else of the contexts
EvalOrderStep ==
    /\ eval_orders_used \subseteq getEvalOrdersUsed'
    /\ getEvalOrdersUsed' # eval_orders_used =>
           /\ ret'.op = "addEvalOrderUse"
           /\ getEvalOrdersUsed' = eval_orders_used \cup { ret'.value }
    /\ (ret' # ret /\ ret'.op = "addEvalOrderUse") =>
           /\ getEvalOrdersUsed' = eval_orders_used \cup { ret'.value }
           /\ UNCHANGED << ctxs, constants, function_codes, contraction_codes,
                           class_codes, interned, allocs >>

\* C12 (SpecEvalOrder): the set of evaluation orders used is {2,3,4,5} before
\* any call; it always holds 2 to 5; a call of addEvalOrderUse on the global,
\* the module or any child context, however deep, adds its value to this one
\* set and changes nothing else; no step removes a value.
C12_EvalOrdersAccumulate ==
    /\ [] (ret.op = "none" => getEvalOrdersUsed = 2 .. 5)
    /\ [] ((2 .. 5) \subseteq getEvalOrdersUsed)
    /\ [][EvalOrderStep]_vars

\* a context two levels below the module context notified 6 after 1 had been
\* notified
C12_Witness ==
    /\ ret.op = "addEvalOrderUse"
    /\ ret.ctx \in Contexts
    /\ ret.ctx # ModuleRef
    /\ getParent(ret.ctx) # ModuleRef
    /\ ret.value = 6
    /\ getEvalOrdersUsed = { 1, 2, 3, 4, 5, 6 }


\* C13 as claimed (SpecTree): an inlined exec context returns from
\* getFrameHandle and hasFrameGuard what its parent returns, and its temp
\* handle of every name is taken from the context exactly when that of its
\* parent is.
C13_ExecInlineFrameDelegates ==
    \A c \in Contexts : ctxs[c].cls = "PythonExecInlineContext" =>
        /\ getFrameHandle(c) = getFrameHandle(ctxs[c].parent)
        /\ hasFrameGuard(c) = hasFrameGuard(ctxs[c].parent)
        /\ \A v \in VarNames :
               ViaContext(getTempHandle(c, v))
                   = ViaContext(getTempHandle(ctxs[c].parent, v))


\* the children that are not None, in their order
NotNone(children) == SelectSeq(children, LAMBDA e : e # NoArg)

\* the children of a str, bytes or complex node, in declared order
ChildrenOf(n) ==
    IF n.kind = "EXPRESSION_BUILTIN_COMPLEX"
    THEN << n.real, n.imag >>
    ELSE << n.value, n.encoding, n.errors >>

\* C14 as claimed (SpecNodes): a str, bytes or complex node hands to
\* computeBuiltinSpec its children that are not None, in declared order, and
\* hands None neither to removeKnowledge nor to computeBuiltinSpec.
C14_NoNoneGiven ==
    node.kind \in UnicodeKinds \cup { "EXPRESSION_BUILTIN_COMPLEX" } =>
        \A i \in DOMAIN trace :
            /\ trace[i].call = "removeKnowledge" => trace[i].value # NoArg
            /\ trace[i].call = "computeBuiltinSpec" =>
                   /\ NoArg \notin Range(trace[i].given_values)
                   /\ trace[i].given_values = NotNone(ChildrenOf(node))

\* C15 (SpecNodes): a str or bytes node calls removeKnowledge once for each
\* argument left after the trailing None are dropped, in their order, then
\* onControlFlowEscape on itself once, and only then computeBuiltinSpec, once;
\* without arguments the escape is still recorded before the builtin spec is
\* asked.
C15_EscapeBeforeSpec ==
    node.kind \in UnicodeKinds =>
        LET args == DropTrailingNone(<< node.value, node.encoding,
                                        node.errors >>)
        IN  /\ Len(trace) = Len(args) + 2
            /\ \A i \in 1 .. Len(args) : trace[i] = RemoveKnowledge(args[i])
            /\ trace[Len(args) + 1] = OnControlFlowEscape(node)
            /\ trace[Len(args) + 2].call = "computeBuiltinSpec"
            /\ trace[Len(args) + 2].given_values = args
            /\ result = trace[Len(args) + 2].returned

\* bytes of a constant with a variable encoding: two removals, the escape,
\* then the builtin spec
C15_Witness ==
    /\ node.kind = "EXPRESSION_BUILTIN_BYTES"
    /\ node.value = ConstString
    /\ node.encoding = VariableRef
    /\ node.errors = NoArg
    /\ Len(trace) = 4
    /\ trace[2] = RemoveKnowledge(VariableRef)
    /\ trace[3].call = "onControlFlowEscape"
    /\ trace[4].call = "computeBuiltinSpec"

====
